---- MODULE Spec2Model ----
(***************************************************************************)
(* Model of the benchmark result aggregation scripts:                      *)
(*   output/make_table.py  parse_filename, parse_method,                   *)
(*                         create_results_table                            *)
(*   output/utils.py       deduplicate_data, calculate_cost_from_token_-   *)
(*                         usage, calculate_time_from_data,                *)
(*                         get_score_from_file                             *)
(*                                                                         *)
(* Python strings are sequences of one-character strings, so that          *)
(* startswith, "in", replace, strip and lstrip are computed character by   *)
(* character.  Python's None is the value None, a dict is a function from  *)
(* its keys, and a call returns Ok(value) or Raise(exception name).        *)
(***************************************************************************)
EXTENDS Integers, Sequences, FiniteSets, TLC

VARIABLES
    filename,       \* Decoder: the argument of parse_filename
    given,          \* Decoder: the components the filename was built from, or AllNone
    decoded,        \* Decoder: what parse_filename returned, or Pending
    data,           \* Extractor: the JSON content of the result file
    model_name,     \* Extractor: the model argument, or None before the call
    dedup_out,      \* Extractor: what deduplicate_data returned, or Pending
    cost_out,       \* Extractor: what calculate_cost_from_token_usage returned
    score,          \* Extractor: what get_score_from_file returned, or Pending
    pc,             \* Driver: position of create_results_table
    run_idx,        \* Driver: index into run_ids
    ds_idx,         \* Driver: index into datasets (0: before the dataset loop)
    entries,        \* Driver: number of directory entries iterated so far
    qualified,      \* Driver: the qualifying files met so far, in iteration order
    failed,         \* Driver: the file whose extraction raised, with the exception
    results_data,   \* Driver: the rows appended so far
    df              \* Driver: the returned table, or NotReturned

vars == <<filename, given, decoded, data, model_name, dedup_out, cost_out, score,
          pc, run_idx, ds_idx, entries, qualified, failed, results_data, df>>

decoderVars == <<filename, given, decoded>>
extractorVars == <<data, model_name, dedup_out, cost_out, score>>
driverVars == <<pc, run_idx, ds_idx, entries, qualified, failed, results_data, df>>

\* Python's None: a sequence that is no string of characters
None == <<"None">>

\* a call that has not returned yet
Pending == [pending |-> TRUE]

----------------------------------------------------------------------------
(* Python str operations *)

Dash == "-"

\* s[i:] for a 0-based i, as a sequence
DropFirst(s, n) == SubSeq(s, n + 1, Len(s))

\* str.startswith
startswith(s, prefix) ==
    /\ Len(prefix) <= Len(s)
    /\ \A i \in 1..Len(prefix) : s[i] = prefix[i]

\* True when sub occurs in s at the 1-based position p
OccursAt(s, sub, p) ==
    /\ p >= 1
    /\ p + Len(sub) - 1 <= Len(s)
    /\ \A i \in 1..Len(sub) : s[p + i - 1] = sub[i]

\* the positions where sub occurs in s
Occurrences(s, sub) == {p \in 1..(Len(s) - Len(sub) + 1) : OccursAt(s, sub, p)}

\* the "in" operator on strings
contains(s, sub) == Occurrences(s, sub) # {}

\* str.find, 1-based; 0 when there is none
find(s, sub) ==
    LET occ == Occurrences(s, sub)
    IN IF occ = {} THEN 0 ELSE CHOOSE p \in occ : \A q \in occ : p <= q

\* str.replace(old, '', 1): the first occurrence of old removed
replace_first(s, old) ==
    LET p == find(s, old)
    IN IF p = 0 THEN s
       ELSE SubSeq(s, 1, p - 1) \o SubSeq(s, p + Len(old), Len(s))

\* str.replace(old, ''): every occurrence removed, scanning left to right
RECURSIVE replace_all(_, _)
replace_all(s, old) ==
    LET p == find(s, old)
    IN IF p = 0 THEN s
       ELSE SubSeq(s, 1, p - 1) \o replace_all(SubSeq(s, p + Len(old), Len(s)), old)

\* str.replace(old, new) for one-character old and new
replace_char(s, old, new) == [i \in 1..Len(s) |-> IF s[i] = old THEN new ELSE s[i]]

\* str.lstrip('-')
RECURSIVE lstrip(_)
lstrip(s) == IF s # <<>> /\ Head(s) = Dash THEN lstrip(Tail(s)) ELSE s

\* str.rstrip('-')
RECURSIVE rstrip(_)
rstrip(s) ==
    IF s # <<>> /\ s[Len(s)] = Dash THEN rstrip(SubSeq(s, 1, Len(s) - 1)) ELSE s

\* str.strip('-')
strip(s) == rstrip(lstrip(s))

\* str.endswith
endswith(s, suffix) ==
    /\ Len(suffix) <= Len(s)
    /\ \A i \in 1..Len(suffix) : s[Len(s) - Len(suffix) + i] = suffix[i]

\* sorted(seq, key=len, reverse=True): stable, so equal lengths keep their order
RECURSIVE InsertByLenDesc(_, _)
InsertByLenDesc(sorted, x) ==
    IF sorted = <<>> THEN <<x>>
    ELSE IF Len(Head(sorted)) >= Len(x)
         THEN <<Head(sorted)>> \o InsertByLenDesc(Tail(sorted), x)
         ELSE <<x>> \o sorted

RECURSIVE SortedInto(_, _)
SortedInto(acc, seq) ==
    IF seq = <<>> THEN acc ELSE SortedInto(InsertByLenDesc(acc, Head(seq)), Tail(seq))

\* the list left as written: what a missing sort would iterate over
unsorted(seq) == seq

sorted_by_len_reverse(seq) == SortedInto(<<>>, seq)

----------------------------------------------------------------------------
(* Vocabularies of parse_filename *)

DotJson == <<".","j","s","o","n">>

DeepSeek_R1 == <<"D","e","e","p","S","e","e","k","-","R","1">>
DeepSeek_V3 == <<"D","e","e","p","S","e","e","k","-","V","3">>
Llama_3_3_70B_Instruct_Turbo ==
    <<"L","l","a","m","a","-","3",".","3","-","7","0","B","-",
      "I","n","s","t","r","u","c","t","-","T","u","r","b","o">>
QwQ_32B_Preview == <<"Q","w","Q","-","3","2","B","-","P","r","e","v","i","e","w">>
QwQ_32B == <<"Q","w","Q","-","3","2","B">>
claude_3_5_haiku == <<"c","l","a","u","d","e","-","3","-","5","-","h","a","i","k","u">>
claude_3_5_sonnet == <<"c","l","a","u","d","e","-","3","-","5","-","s","o","n","n","e","t">>
gpt_35_turbo == <<"g","p","t","-","3","5","-","t","u","r","b","o">>
gpt_4 == <<"g","p","t","-","4">>
gpt_4o == <<"g","p","t","-","4","o">>
gpt_4o_mini == <<"g","p","t","-","4","o","-","m","i","n","i">>
o1_mini == <<"o","1","-","m","i","n","i">>
o3_mini == <<"o","3","-","m","i","n","i">>

model_prefixes ==
    <<DeepSeek_R1, DeepSeek_V3, Llama_3_3_70B_Instruct_Turbo,
      QwQ_32B_Preview, QwQ_32B, claude_3_5_haiku, claude_3_5_sonnet,
      gpt_35_turbo, gpt_4, gpt_4o, gpt_4o_mini, o1_mini, o3_mini>>

medqa == <<"m","e","d","q","a">>
medbullets == <<"m","e","d","b","u","l","l","e","t","s">>
mmlu == <<"m","m","l","u">>
pubmedqa == <<"p","u","b","m","e","d","q","a">>
medexqa == <<"m","e","d","e","x","q","a">>
medmcqa == <<"m","e","d","m","c","q","a">>
medxpertqa_r == <<"m","e","d","x","p","e","r","t","q","a","-","r">>
medxpertqa_u == <<"m","e","d","x","p","e","r","t","q","a","-","u">>
mmlu_pro == <<"m","m","l","u","-","p","r","o">>

datasets ==
    <<medqa, medbullets, mmlu, pubmedqa, medexqa, medmcqa,
      medxpertqa_r, medxpertqa_u, mmlu_pro>>

test_hard == <<"t","e","s","t","_","h","a","r","d">>
test == <<"t","e","s","t">>

splits == <<test_hard, test>>

\* the splits in the other order: "test" tried before "test_hard"
splits_short_first == <<test, test_hard>>

zero_shot == <<"z","e","r","o","_","s","h","o","t">>
cot_sc_5 == <<"c","o","t","_","s","c","-","5">>
aflow == <<"a","f","l","o","w">>
mdagents == <<"m","d","a","g","e","n","t","s">>
few_shot == <<"f","e","w","_","s","h","o","t">>
medagents == <<"m","e","d","a","g","e","n","t","s">>
self_refine_3 == <<"s","e","l","f","_","r","e","f","i","n","e","-","3">>
medprompt_3 == <<"m","e","d","p","r","o","m","p","t","-","3">>
multipersona_2 == <<"m","u","l","t","i","p","e","r","s","o","n","a","-","2">>
cot == <<"c","o","t">>
spo == <<"s","p","o">>

Range(seq) == {seq[i] : i \in 1..Len(seq)}

----------------------------------------------------------------------------
(* parse_filename *)

AllNone == [model |-> None, dataset |-> None, split |-> None, method |-> None]

\* a for loop that breaks at its first hit: the least of the indices of the
\* candidates that match, 0 when none does
first_hit(hits) ==
    IF hits = {} THEN 0 ELSE CHOOSE i \in hits : \A j \in hits : i <= j

\* lines 17-22: the model is the first prefix, longest first, the name starts with
ModelCandidates == sorted_by_len_reverse(model_prefixes)

ModelStage(name) ==
    LET i == first_hit({k \in 1..Len(ModelCandidates) :
                           startswith(name, ModelCandidates[k])})
    IN IF i = 0 THEN [found |-> None, remaining |-> None]
       ELSE [found |-> ModelCandidates[i],
             remaining |-> lstrip(DropFirst(name, Len(ModelCandidates[i])))]

\* lines 32-37: the dataset is the first one, longest first, the remainder contains
DatasetCandidates == sorted_by_len_reverse(datasets)

DatasetStage(remaining) ==
    LET i == first_hit({k \in 1..Len(DatasetCandidates) :
                           contains(remaining, DatasetCandidates[k])})
    IN IF i = 0 THEN [found |-> None, remaining |-> remaining]
       ELSE [found |-> DatasetCandidates[i],
             remaining |-> strip(replace_first(remaining, DatasetCandidates[i]))]

\* lines 42-48: test_hard is tried before test
SplitCandidates == splits

SplitStage(remaining) ==
    LET i == first_hit({k \in 1..Len(SplitCandidates) :
                           contains(remaining, SplitCandidates[k])})
    IN IF i = 0 THEN [found |-> None, remaining |-> remaining]
       ELSE [found |-> SplitCandidates[i],
             remaining |-> strip(replace_first(remaining, SplitCandidates[i]))]

\* line 53 without its default: the remainder as it is
method_as_is(remaining) == remaining

\* line 53: method = remaining if remaining else "zero_shot"
method_or_default(remaining) == IF remaining # <<>> THEN remaining ELSE zero_shot

parse_filename(fname) ==
    LET name == replace_all(fname, DotJson)
        m == ModelStage(name)
    IN IF m.found = None THEN AllNone
       ELSE LET d == DatasetStage(m.remaining)
            IN IF d.found = None THEN AllNone
               ELSE LET s == SplitStage(d.remaining)
                    IN IF s.found = None THEN AllNone
                       ELSE [model |-> m.found, dataset |-> d.found,
                             split |-> s.found,
                             method |-> method_or_default(s.remaining)]

----------------------------------------------------------------------------
(* Decoder runs: parse_filename applied to one filename *)

MaxPieces == 3

sep == <<"-">>

method_tokens ==
    <<zero_shot, cot_sc_5, aflow, mdagents, few_shot, medagents,
      self_refine_3, medprompt_3, multipersona_2, cot, spo>>

\* "<model>-<dataset>-<split>-<method>.json"
FileNameOf(c) ==
    c.model \o sep \o c.dataset \o sep \o c.split \o sep \o c.method \o DotJson

Components ==
    [model : Range(model_prefixes), dataset : Range(datasets),
     split : Range(splits), method : Range(method_tokens)]

\* fragments that arbitrary filenames are assembled from
Pieces ==
    {gpt_4, gpt_4o, gpt_4o_mini, QwQ_32B, QwQ_32B_Preview,
     mmlu, mmlu_pro, medqa, pubmedqa, test, test_hard, cot,
     sep, <<"-","p","r","o">>, <<"_","h","a","r","d">>, <<"o">>, DotJson}

RECURSIVE Concat(_)
Concat(ps) == IF ps = <<>> THEN <<>> ELSE Head(ps) \o Concat(Tail(ps))

AssembledNames ==
    UNION {{Concat(ps) : ps \in [1..k -> Pieces]} : k \in 0..MaxPieces}

DecoderIdle == filename = <<>> /\ given = AllNone /\ decoded = Pending

\* given is AllNone for a name that was not built from four components
InitDecoder ==
    /\ \/ \E c \in Components : given = c /\ filename = FileNameOf(c)
       \/ given = AllNone /\ filename \in AssembledNames
    /\ decoded = Pending

\* make_table.py line 109: the call of parse_filename
Decode ==
    /\ decoded = Pending
    /\ decoded' = parse_filename(filename)
    /\ UNCHANGED <<filename, given>>
    /\ UNCHANGED <<extractorVars, driverVars>>

----------------------------------------------------------------------------
(* utils.py: the Record Extractor *)

(* A result record is a function from its keys to their values, so that    *)
(* 'cost' in item is "cost" \in DOMAIN item.  A call returns Ok(v) or      *)
(* Raise(e).  Costs are counted in units of 10^-8 currency units, so that  *)
(* a price per million tokens is an integer per token, and times in        *)
(* milliseconds; a mean is the fraction [num, den], not a rounded float.   *)

Ok(v) == [ok |-> TRUE, value |-> v]
Raise(e) == [ok |-> FALSE, raised |-> e]

KeyError == "KeyError"
ZeroDivisionError == "ZeroDivisionError"
JSONDecodeError == "JSONDecodeError"
EmptyDatasetError == "empty dataset"

\* a file whose text is not JSON, and a file holding a JSON array
MalformedFile == [valid |-> FALSE]
JsonFile(items) == [valid |-> TRUE, items |-> items]

NaN == [nan |-> TRUE]
Frac(n, d) == [num |-> n, den |-> d]

has(item, key) == key \in DOMAIN item

\* dict.get(key): None for a missing key
get(item, key) == IF has(item, key) THEN item[key] ELSE None

\* Python truth value of an answer: None and the empty string are falsy
truthy(v) == v # None /\ v # <<>>

\* a or b
py_or(a, b) == IF truthy(a) THEN a ELSE b

\* lines 26-34, from item i on
RECURSIVE dedup_loop(_, _, _, _)
dedup_loop(items, i, seen, deduplicated_data) ==
    IF i > Len(items) THEN Ok(deduplicated_data)
    ELSE IF ~has(items[i], "realidx") THEN Raise(KeyError)
    ELSE IF items[i].realidx \notin seen
         THEN dedup_loop(items, i + 1, seen \cup {items[i].realidx},
                         Append(deduplicated_data, items[i]))
         ELSE dedup_loop(items, i + 1, seen, deduplicated_data)

\* the loop with seen never filled: every record is kept
keep_all(items) ==
    IF \E i \in 1..Len(items) : ~has(items[i], "realidx")
    THEN Raise(KeyError) ELSE Ok(items)

deduplicate_data(items) == dedup_loop(items, 1, {}, <<>>)

\* lines 41-58: the elif chain on the model, prices per token in cost units
NoPrice == [priced |-> FALSE]
Price(p_in, p_out) == [priced |-> TRUE, prompt |-> p_in, completion |-> p_out]

price_of(model) ==
    IF model = gpt_4o_mini THEN Price(15, 60)
    ELSE IF model = gpt_4o THEN Price(250, 1000)
    ELSE IF model = o3_mini \/ model = o1_mini THEN Price(110, 440)
    ELSE IF model = claude_3_5_sonnet THEN Price(300, 1500)
    ELSE IF model = claude_3_5_haiku THEN Price(80, 400)
    ELSE IF model = QwQ_32B_Preview THEN Price(120, 120)
    ELSE IF model = DeepSeek_R1 THEN Price(700, 700)
    ELSE IF model = DeepSeek_V3 THEN Price(125, 125)
    ELSE IF model = Llama_3_3_70B_Instruct_Turbo THEN Price(88, 88)
    ELSE NoPrice

\* the branch of one record with the model's branch tested before 'cost'
item_cost_tokens_first(item, model) ==
    LET p == price_of(model)
    IN IF p.priced
       THEN IF ~has(item, "token_usage") THEN Raise(KeyError)
            ELSE Ok(item.token_usage.prompt_tokens * p.prompt
                    + item.token_usage.completion_tokens * p.completion)
       ELSE IF has(item, "cost") THEN Ok(item.cost) ELSE Ok(0)

\* the branch of one record with token_usage read also when no price applies
item_cost_reads_tokens(item, model) ==
    LET p == price_of(model)
    IN IF has(item, "cost") THEN Ok(item.cost)
       ELSE IF ~has(item, "token_usage") THEN Raise(KeyError)
       ELSE IF p.priced
            THEN Ok(item.token_usage.prompt_tokens * p.prompt
                    + item.token_usage.completion_tokens * p.completion)
            ELSE Ok(0)

\* lines 39-58: what one record adds to total_cost
item_cost(item, model) ==
    LET p == price_of(model)
    IN IF has(item, "cost") THEN Ok(item.cost)
       ELSE IF p.priced
            THEN IF ~has(item, "token_usage") THEN Raise(KeyError)
                 ELSE Ok(item.token_usage.prompt_tokens * p.prompt
                         + item.token_usage.completion_tokens * p.completion)
            ELSE Ok(0)

\* lines 37-58: the loop, from item i on
RECURSIVE cost_loop(_, _, _, _)
cost_loop(items, model, i, total_cost) ==
    IF i > Len(items) THEN Ok(total_cost)
    ELSE LET c == item_cost(items[i], model)
         IN IF ~c.ok THEN c
            ELSE cost_loop(items, model, i + 1, total_cost + c.value)

\* lines 36-59
calculate_cost_from_token_usage(items, model) ==
    LET total == cost_loop(items, model, 1, 0)
    IN IF ~total.ok THEN total
       ELSE IF Len(items) > 0 THEN Ok(Frac(total.value, Len(items)))
       ELSE Ok(Frac(0, 1))

\* lines 62-64, from item i on
RECURSIVE time_loop(_, _, _)
time_loop(items, i, total_time) ==
    IF i > Len(items) THEN Ok(total_time)
    ELSE IF ~has(items[i], "time_elapsed") THEN Raise(KeyError)
    ELSE time_loop(items, i + 1, total_time + items[i].time_elapsed)

\* lines 61-65: the division raises on an empty list
calculate_time_from_data(items) ==
    LET total == time_loop(items, 1, 0)
    IN IF ~total.ok THEN total
       ELSE IF Len(items) = 0 THEN Raise(ZeroDivisionError)
       ELSE Ok(Frac(total.value, Len(items)))

\* line 74 with the key's presence deciding, not its truth value
ground_truth_if_present(item) ==
    IF has(item, "answer_idx") THEN item.answer_idx ELSE get(item, "answer")

\* line 74: gt = item.get('answer_idx') or item.get('answer')
ground_truth(item) == py_or(get(item, "answer_idx"), get(item, "answer"))

\* lines 72-76, from item i on: the number of True in answers
RECURSIVE answers_loop(_, _, _)
answers_loop(items, i, correct) ==
    IF i > Len(items) THEN Ok(correct)
    ELSE IF ~has(items[i], "predicted_answer") THEN Raise(KeyError)
    ELSE answers_loop(items, i + 1,
            IF ground_truth(items[i]) = items[i].predicted_answer
            THEN correct + 1 ELSE correct)

\* line 77: np.mean(answers) * 100; the mean of an empty list is nan
accuracy_of(correct, n) == IF n = 0 THEN NaN ELSE Frac(100 * correct, n)

\* lines 67-80; content is the file's text parsed, or MalformedFile
get_score_from_file(content, model) ==
    IF ~content.valid THEN Raise(JSONDecodeError)
    ELSE LET dedup == deduplicate_data(content.items)
         IN IF ~dedup.ok THEN dedup
            ELSE LET answers == answers_loop(dedup.value, 1, 0)
                 IN IF ~answers.ok THEN answers
                    ELSE LET avg_cost ==
                                 calculate_cost_from_token_usage(dedup.value, model)
                         IN IF ~avg_cost.ok THEN avg_cost
                            ELSE LET avg_time == calculate_time_from_data(dedup.value)
                                 IN IF ~avg_time.ok THEN avg_time
                                    ELSE Ok([acc |-> accuracy_of(answers.value,
                                                                Len(dedup.value)),
                                             count |-> Len(dedup.value),
                                             avg_cost |-> avg_cost.value,
                                             avg_time |-> avg_time.value])

----------------------------------------------------------------------------
(* Extractor runs: the functions of utils.py applied to one file *)

MaxRecords == 2

NoKeys == <<>>

IdParts == {[realidx |-> "q1"], [realidx |-> "q2"]}
AnswerIdxParts == {NoKeys, [answer_idx |-> <<>>], [answer_idx |-> <<"A">>]}
AnswerParts == {NoKeys, [answer |-> <<"B">>]}
PredictedParts == {[predicted_answer |-> <<"A">>], [predicted_answer |-> <<"B">>]}
CostParts == {NoKeys, [cost |-> 7]}
UsageParts ==
    {NoKeys, [token_usage |-> [prompt_tokens |-> 100, completion_tokens |-> 50]]}
TimeParts == {[time_elapsed |-> 1000], [time_elapsed |-> 3000]}

\* records that differ in their answer keys
AnswerItems ==
    {id @@ ai @@ an @@ pr
        @@ [token_usage |-> [prompt_tokens |-> 100, completion_tokens |-> 50],
            time_elapsed |-> 1000] :
     id \in IdParts, ai \in AnswerIdxParts, an \in AnswerParts, pr \in PredictedParts}

\* records that differ in their cost, token and time keys
CostItems ==
    {id @@ c @@ tu @@ t
        @@ [answer_idx |-> <<"A">>, predicted_answer |-> <<"A">>] :
     id \in IdParts, c \in CostParts, tu \in UsageParts, t \in TimeParts}

\* records that lack a required key
BrokenItems ==
    {[answer |-> <<"B">>, predicted_answer |-> <<"B">>, cost |-> 7,
      time_elapsed |-> 1000],
     [realidx |-> "q1", answer |-> <<"B">>, cost |-> 7, time_elapsed |-> 1000]}

Items == AnswerItems \cup CostItems \cup BrokenItems

ItemLists == UNION {[1..k -> Items] : k \in 0..MaxRecords}

\* a model name that is in no table
unknown_model == <<"m","y","-","m","o","d","e","l">>

ExtractorModels == Range(model_prefixes) \cup {unknown_model}

ExtractorIdle ==
    /\ data = MalformedFile
    /\ model_name = None
    /\ dedup_out = Pending
    /\ cost_out = Pending
    /\ score = Pending

InitExtractor ==
    /\ data \in {MalformedFile} \cup {JsonFile(items) : items \in ItemLists}
    /\ model_name = None
    /\ dedup_out = Pending
    /\ cost_out = Pending
    /\ score = Pending

NotCalled == dedup_out = Pending /\ cost_out = Pending /\ score = Pending

\* a call of deduplicate_data on the file's records
CallDeduplicate ==
    /\ NotCalled
    /\ data.valid
    /\ dedup_out' = deduplicate_data(data.items)
    /\ UNCHANGED <<data, model_name, cost_out, score>>
    /\ UNCHANGED <<decoderVars, driverVars>>

\* a call of calculate_cost_from_token_usage on the file's records
CallCost ==
    /\ NotCalled
    /\ data.valid
    /\ \E m \in ExtractorModels :
          /\ model_name' = m
          /\ cost_out' = calculate_cost_from_token_usage(data.items, m)
    /\ UNCHANGED <<data, dedup_out, score>>
    /\ UNCHANGED <<decoderVars, driverVars>>

\* a call of get_score_from_file on the file
CallGetScore ==
    /\ NotCalled
    /\ \E m \in ExtractorModels :
          /\ model_name' = m
          /\ score' = get_score_from_file(data, m)
    /\ UNCHANGED <<data, dedup_out, cost_out>>
    /\ UNCHANGED <<decoderVars, driverVars>>

----------------------------------------------------------------------------
(* make_table.py: parse_method and create_results_table *)

Zero_shot_label == <<"Z","e","r","o","-","s","h","o","t">>
CoT_SC_label == <<"C","o","T","-","S","C">>
AFlow_label == <<"A","F","l","o","w">>
MDAgents_label == <<"M","D","A","g","e","n","t","s">>
Few_shot_label == <<"F","e","w","-","s","h","o","t">>
MedAgents_label == <<"M","e","d","A","g","e","n","t","s">>
Self_refine_label == <<"S","e","l","f","-","r","e","f","i","n","e">>
MedPrompt_label == <<"M","e","d","P","r","o","m","p","t">>
MultiPersona_label == <<"M","u","l","t","i","P","e","r","s","o","n","a">>
CoT_label == <<"C","o","T">>
SPO_label == <<"S","P","O">>

\* lines 57-82
parse_method(method) ==
    IF method = zero_shot THEN Zero_shot_label
    ELSE IF method = cot_sc_5 THEN CoT_SC_label
    ELSE IF method = aflow THEN AFlow_label
    ELSE IF method = mdagents THEN MDAgents_label
    ELSE IF method = few_shot THEN Few_shot_label
    ELSE IF method = medagents THEN MedAgents_label
    ELSE IF method = self_refine_3 THEN Self_refine_label
    ELSE IF method = medprompt_3 THEN MedPrompt_label
    ELSE IF method = multipersona_2 THEN MultiPersona_label
    ELSE IF method = cot THEN CoT_label
    ELSE IF method = spo THEN SPO_label
    ELSE method

\* lines 88-91
model_names == <<o3_mini, gpt_4o, gpt_4o_mini>>
split == test_hard
run_ids == <<0, 1, 2>>

\* round(x, ndigits) of the fraction a / b >= 0, as a count of 10^-ndigits:
\* to the nearest, a tie to the even one
round_half_even(a, b) ==
    LET q == a \div b
        r == a % b
    IN IF 2 * r < b THEN q
       ELSE IF 2 * r > b THEN q + 1
       ELSE IF q % 2 = 0 THEN q ELSE q + 1

\* round(accuracy, 1), in tenths of a percent; nan stays nan
round_accuracy(acc) ==
    IF acc = NaN THEN NaN ELSE Frac(round_half_even(10 * acc.num, acc.den), 10)

\* round(time, 2): milliseconds to hundredths of a second
round_time(t) == Frac(round_half_even(t.num, 10 * t.den), 100)

\* round(cost, 4): cost units of 10^-8 to 10^-4 currency units
round_cost(c) == Frac(round_half_even(c.num, 10000 * c.den), 10000)

\* lines 117-127: the row of one file
row_of(run_id, dataset, parsed, s) ==
    [exp_name |-> parse_method(parsed.method),
     dataset |-> dataset,
     model |-> replace_char(parsed.model, "-", "_"),
     run_id |-> run_id,
     accuracy |-> round_accuracy(s.acc),
     avg_time |-> round_time(s.avg_time),
     avg_cost |-> round_cost(s.avg_cost),
     count |-> s.count]

\* the characters of the vocabularies in code point order
CodePoints ==
    <<"-", ".", "0", "1", "2", "3", "4", "5", "6", "7", "8", "9",
      "A", "B", "C", "D", "E", "F", "G", "H", "I", "J", "K", "L", "M",
      "N", "O", "P", "Q", "R", "S", "T", "U", "V", "W", "X", "Y", "Z",
      "_",
      "a", "b", "c", "d", "e", "f", "g", "h", "i", "j", "k", "l", "m",
      "n", "o", "p", "q", "r", "s", "t", "u", "v", "w", "x", "y", "z">>

ord(c) == CHOOSE i \in 1..Len(CodePoints) : CodePoints[i] = c

\* a < b on strings
RECURSIVE str_less(_, _)
str_less(a, b) ==
    IF b = <<>> THEN FALSE
    ELSE IF a = <<>> THEN TRUE
    ELSE IF Head(a) = Head(b) THEN str_less(Tail(a), Tail(b))
    ELSE ord(Head(a)) < ord(Head(b))

\* row a sorts strictly before row b by (dataset, model, run_id)
row_less(a, b) ==
    \/ str_less(a.dataset, b.dataset)
    \/ /\ a.dataset = b.dataset
       /\ \/ str_less(a.model, b.model)
          \/ a.model = b.model /\ a.run_id < b.run_id

RECURSIVE insert_row(_, _)
insert_row(rows, x) ==
    IF rows = <<>> THEN <<x>>
    ELSE IF row_less(x, Head(rows)) THEN <<x>> \o rows
    ELSE <<Head(rows)>> \o insert_row(Tail(rows), x)

\* line 135: df.sort_values(['dataset', 'model', 'run_id']), rows of equal keys
\* in their order of insertion
RECURSIVE sort_values(_)
sort_values(rows) ==
    IF rows = <<>> THEN <<>>
    ELSE insert_row(sort_values(SubSeq(rows, 1, Len(rows) - 1)), rows[Len(rows)])

\* line 111 with the split left out of the test
passes_filter_no_split(parsed, dataset) ==
    ~(parsed.model \notin Range(model_names) \/ parsed.dataset # dataset)

\* line 111: the negation of the condition of the continue
passes_filter(parsed, dataset) ==
    ~(\/ parsed.model \notin Range(model_names)
      \/ parsed.dataset # dataset
      \/ parsed.split # split)

\* line 106: the entries that are not skipped at once
is_json_file(entry) == entry.is_file /\ endswith(entry.name, DotJson)

(* The directory tree is the input of the pass.  It is met as the loops
   reach it: whether run-<id> and run-<id>/<dataset> are directories, and
   the entries iterdir yields, in iterdir's order. *)

MaxEntries == 2

DotTxt == <<".","t","x","t">>

good_item ==
    [realidx |-> "q1", answer_idx |-> <<"A">>, predicted_answer |-> <<"A">>,
     token_usage |-> [prompt_tokens |-> 100, completion_tokens |-> 50],
     time_elapsed |-> 1000]

wrong_item ==
    [realidx |-> "q2", answer_idx |-> <<"B">>, predicted_answer |-> <<"A">>,
     token_usage |-> [prompt_tokens |-> 100, completion_tokens |-> 50],
     time_elapsed |-> 3000]

no_tokens_item ==
    [realidx |-> "q1", answer_idx |-> <<"A">>, predicted_answer |-> <<"A">>,
     time_elapsed |-> 1000]

\* two records and a repetition of the first
GoodFile == JsonFile(<<good_item, wrong_item, good_item>>)
EmptyFile == JsonFile(<<>>)
MissingKeyFile == JsonFile(<<no_tokens_item>>)

FileContents == {GoodFile, EmptyFile, MissingKeyFile, MalformedFile}

\* another dataset than ds: the next one of the list
other_dataset(i) == datasets[(i % Len(datasets)) + 1]

named(model, dataset, rest) == model \o sep \o dataset \o sep \o rest

File(name, content) == [name |-> name, is_file |-> TRUE, content |-> content]
SubDir(name) == [name |-> name, is_file |-> FALSE, content |-> MalformedFile]

\* the entries a directory of dataset number i may hold
DirEntries(i) ==
    LET ds == datasets[i]
        hard_cot == test_hard \o sep \o cot
    IN {File(n \o DotJson, c) :
            n \in {named(gpt_4o, ds, hard_cot), named(o3_mini, ds, test_hard)},
            c \in FileContents}
       \cup {File(named(gpt_4, ds, hard_cot) \o DotJson, GoodFile),
             File(named(gpt_4o_mini, other_dataset(i), hard_cot) \o DotJson,
                  GoodFile),
             File(named(gpt_4o, ds, test \o sep \o cot) \o DotJson, GoodFile),
             File(<<"r","e","s","u","l","t","s">> \o DotJson, GoodFile),
             File(named(gpt_4o, ds, hard_cot) \o DotTxt, GoodFile),
             SubDir(named(gpt_4o, ds, hard_cot) \o DotJson)}

\* DirEntries and parse_filename tabulated over the names a tree can hold
dir_entries == [i \in 1..Len(datasets) |-> DirEntries(i)]

EntryNames == UNION {{e.name : e \in dir_entries[i]} : i \in 1..Len(datasets)}

parsed_name == [n \in EntryNames |-> parse_filename(n)]

NotReturned == [returned |-> FALSE]
Returned(rows) == [returned |-> TRUE, rows |-> rows]

InitDriver ==
    /\ pc = "run_loop"
    /\ run_idx = 0
    /\ ds_idx = 0
    /\ entries = 0
    /\ qualified = <<>>
    /\ failed = <<>>
    /\ results_data = <<>>
    /\ df = NotReturned

\* lines 95-98: the next run id; a run directory that is missing is passed over
NextRun ==
    /\ pc = "run_loop"
    /\ run_idx < Len(run_ids)
    /\ run_idx' = run_idx + 1
    /\ ds_idx' = 0
    /\ \E is_dir \in BOOLEAN :
          pc' = IF is_dir THEN "dataset_loop" ELSE "run_loop"
    /\ UNCHANGED <<entries, qualified, failed, results_data, df>>
    /\ UNCHANGED <<decoderVars, extractorVars>>

\* lines 100-103: the next dataset; a missing dataset directory is passed over
NextDataset ==
    /\ pc = "dataset_loop"
    /\ ds_idx < Len(datasets)
    /\ ds_idx' = ds_idx + 1
    /\ \E is_dir \in BOOLEAN :
          pc' = IF is_dir THEN "file_loop" ELSE "dataset_loop"
    /\ UNCHANGED <<run_idx, entries, qualified, failed, results_data, df>>
    /\ UNCHANGED <<decoderVars, extractorVars>>

\* line 100: the datasets of this run are exhausted
EndRun ==
    /\ pc = "dataset_loop"
    /\ ds_idx = Len(datasets)
    /\ pc' = "run_loop"
    /\ UNCHANGED <<run_idx, ds_idx, entries, qualified, failed, results_data, df>>
    /\ UNCHANGED <<decoderVars, extractorVars>>

\* the file meets the conditions the report is stated for
Qualifies(entry, dataset) ==
    /\ entry.is_file
    /\ endswith(entry.name, DotJson)
    /\ LET p == parsed_name[entry.name]
       IN /\ p.model \in {o3_mini, gpt_4o, gpt_4o_mini}
          /\ p.dataset = dataset
          /\ p.split = test_hard

\* lines 105-127: one entry of the directory
NextEntry ==
    /\ pc = "file_loop"
    /\ entries < MaxEntries
    /\ \E entry \in dir_entries[ds_idx] :
          LET run_id == run_ids[run_idx]
              dataset == datasets[ds_idx]
              parsed == parsed_name[entry.name]
              met == [run_id |-> run_id, dataset |-> dataset, name |-> entry.name]
              s == get_score_from_file(entry.content, parsed.model)
          IN /\ entries' = entries + 1
             /\ qualified' = IF Qualifies(entry, dataset)
                             THEN Append(qualified, met) ELSE qualified
             /\ IF ~is_json_file(entry) \/ ~passes_filter(parsed, dataset)
                THEN UNCHANGED <<pc, failed, results_data>>
                ELSE IF ~s.ok
                     THEN /\ pc' = "aborted"
                          /\ failed' = Append(failed, met @@ [raised |-> s.raised])
                          /\ UNCHANGED results_data
                     ELSE /\ results_data' =
                                Append(results_data,
                                       row_of(run_id, dataset, parsed, s.value))
                          /\ UNCHANGED <<pc, failed>>
    /\ UNCHANGED <<run_idx, ds_idx, df>>
    /\ UNCHANGED <<decoderVars, extractorVars>>

\* line 105: iterdir is exhausted
EndDirectory ==
    /\ pc = "file_loop"
    /\ pc' = "dataset_loop"
    /\ UNCHANGED <<run_idx, ds_idx, entries, qualified, failed, results_data, df>>
    /\ UNCHANGED <<decoderVars, extractorVars>>

\* lines 129-137: the table is built, sorted unless empty, and returned
Return ==
    /\ pc = "run_loop"
    /\ run_idx = Len(run_ids)
    /\ pc' = "done"
    /\ df' = Returned(IF results_data = <<>> THEN <<>> ELSE sort_values(results_data))
    /\ UNCHANGED <<run_idx, ds_idx, entries, qualified, failed, results_data>>
    /\ UNCHANGED <<decoderVars, extractorVars>>

----------------------------------------------------------------------------
(* Specifications *)

DriverIdle ==
    /\ pc = "idle"
    /\ run_idx = 0
    /\ ds_idx = 0
    /\ entries = 0
    /\ qualified = <<>>
    /\ failed = <<>>
    /\ results_data = <<>>
    /\ df = NotReturned

Init == DecoderIdle /\ ExtractorIdle /\ InitDriver

Next ==
    \/ NextRun
    \/ NextDataset
    \/ EndRun
    \/ NextEntry
    \/ EndDirectory
    \/ Return

\* a pass of create_results_table over a directory tree
Spec == Init /\ [][Next]_vars

InitDecoderRun == InitDecoder /\ ExtractorIdle /\ DriverIdle

\* the Filename Decoder alone
SpecDecoder == InitDecoderRun /\ [][Decode]_vars

InitExtractorRun == DecoderIdle /\ InitExtractor /\ DriverIdle

ExtractorNext ==
    \/ CallDeduplicate
    \/ CallCost
    \/ CallGetScore

\* the Record Extractor alone
SpecExtractor == InitExtractorRun /\ [][ExtractorNext]_vars

----------------------------------------------------------------------------
(* Properties of the Filename Decoder, checked under SpecDecoder *)

Stripped == replace_all(filename, DotJson)

\* C1: a filename "<model>-<dataset>-<split>-<method>.json" built from the
\* vocabularies and the normalizer's method tokens decodes to exactly the
\* four components it was built from.
RoundTrip ==
    (decoded # Pending /\ given # AllNone) => decoded = given

RoundTripWitness ==
    /\ decoded # Pending
    /\ given = [model |-> gpt_4o_mini, dataset |-> mmlu_pro,
                split |-> test_hard, method |-> cot_sc_5]
    /\ decoded = given

\* C2: the model stage finds the longest model identifier that is a prefix
\* of the name, and none only when no identifier is a prefix; the dataset
\* stage finds the longest dataset identifier the remainder contains, and
\* none only when it contains no identifier; a decoded result carries them.
LongestMatch ==
    decoded # Pending =>
        LET m == ModelStage(Stripped)
            ModelHits == {p \in Range(model_prefixes) : startswith(Stripped, p)}
        IN /\ (m.found = None) <=> (ModelHits = {})
           /\ m.found # None =>
                 /\ m.found \in ModelHits
                 /\ \A p \in ModelHits : Len(p) <= Len(m.found)
                 /\ LET d == DatasetStage(m.remaining)
                        DatasetHits ==
                            {ds \in Range(datasets) : contains(m.remaining, ds)}
                    IN /\ (d.found = None) <=> (DatasetHits = {})
                       /\ d.found # None =>
                             /\ d.found \in DatasetHits
                             /\ \A ds \in DatasetHits : Len(ds) <= Len(d.found)
                       /\ decoded # AllNone =>
                             decoded.model = m.found /\ decoded.dataset = d.found

LongestMatchWitness ==
    /\ decoded # Pending
    /\ given = AllNone
    /\ startswith(Stripped, gpt_4) /\ startswith(Stripped, gpt_4o)
    /\ decoded.model = gpt_4o_mini
    /\ contains(Stripped, mmlu)
    /\ decoded.dataset = mmlu_pro

\* C3: parse_filename returns four None when the model, the dataset or the
\* split stage finds no match, and four values otherwise, never a mix; a
\* returned method is never the empty string.
AllOrNothing ==
    decoded # Pending =>
        LET m == ModelStage(Stripped)
            d == DatasetStage(m.remaining)
            s == SplitStage(d.remaining)
            StageFails ==
                \/ m.found = None
                \/ d.found = None
                \/ s.found = None
        IN /\ StageFails <=> decoded = AllNone
           /\ decoded # AllNone =>
                 /\ decoded.model # None
                 /\ decoded.dataset # None
                 /\ decoded.split # None
                 /\ decoded.method # None
                 /\ decoded.method # <<>>

\* a name whose model and dataset are found and whose split is not
AllOrNothingWitness ==
    /\ decoded = AllNone
    /\ ModelStage(Stripped).found = gpt_4o
    /\ DatasetStage(ModelStage(Stripped).remaining).found = medqa

----------------------------------------------------------------------------
(* Properties of the Record Extractor, checked under SpecExtractor *)

RECURSIVE SumSeq(_)
SumSeq(ns) == IF ns = <<>> THEN 0 ELSE Head(ns) + SumSeq(Tail(ns))

AllHaveRealidx(items) == \A i \in 1..Len(items) : has(items[i], "realidx")

RealidxOf(items) == {items[i].realidx : i \in 1..Len(items)}

\* i is the first position of its realidx
IsFirst(items, i) ==
    \A j \in 1..(i - 1) : items[j].realidx # items[i].realidx

\* C4: deduplicate_data returns the first record of each distinct realidx,
\* in the order of the input, and the count get_score_from_file reports is
\* the number of distinct realidx of the file.
FirstOccurrenceWins ==
    /\ (dedup_out # Pending /\ AllHaveRealidx(data.items)) =>
          /\ dedup_out.ok
          /\ LET items == data.items
                 out == dedup_out.value
             IN /\ Len(out) = Cardinality(RealidxOf(items))
                /\ \A a, b \in 1..Len(out) :
                      a # b => out[a].realidx # out[b].realidx
                /\ \E f \in [1..Len(out) -> 1..Len(items)] :
                      /\ \A a, b \in 1..Len(out) : a < b => f[a] < f[b]
                      /\ \A a \in 1..Len(out) :
                            out[a] = items[f[a]] /\ IsFirst(items, f[a])
    /\ (score # Pending /\ score.ok) =>
          score.value.count = Cardinality(RealidxOf(data.items))

\* two different records of one realidx: the first one is returned
FirstOccurrenceWinsWitness ==
    /\ dedup_out # Pending
    /\ dedup_out.ok
    /\ Len(data.items) = 2
    /\ data.items[1].realidx = data.items[2].realidx
    /\ data.items[1] # data.items[2]
    /\ dedup_out.value = <<data.items[1]>>

\* the ground truth as the claim states it
StatedGroundTruth(item) ==
    IF has(item, "answer_idx") /\ item.answer_idx # <<>> /\ item.answer_idx # None
    THEN item.answer_idx
    ELSE IF has(item, "answer") THEN item.answer ELSE None

\* C5: the ground truth is answer_idx when it is present and truthy and the
\* answer field otherwise, and the accuracy is the share of deduplicated
\* records whose ground truth equals predicted_answer.
GroundTruthFallback ==
    (score # Pending /\ score.ok) =>
        LET dedup == deduplicate_data(data.items).value
            Correct == {i \in 1..Len(dedup) :
                           StatedGroundTruth(dedup[i]) = dedup[i].predicted_answer}
        IN score.value.acc = Frac(100 * Cardinality(Correct), Len(dedup))

\* answer_idx "" and answer "B" with the prediction "B" counts as correct
GroundTruthFallbackWitness ==
    /\ score # Pending
    /\ score.ok
    /\ Len(data.items) = 1
    /\ has(data.items[1], "answer_idx") /\ data.items[1].answer_idx = <<>>
    /\ has(data.items[1], "answer") /\ data.items[1].answer = <<"B">>
    /\ data.items[1].predicted_answer = <<"B">>
    /\ score.value.acc = Frac(100, 1)

\* the price table of the specification, per token in cost units
StatedPrices ==
    <<[model |-> gpt_4o_mini, prompt |-> 15, completion |-> 60],
      [model |-> gpt_4o, prompt |-> 250, completion |-> 1000],
      [model |-> o3_mini, prompt |-> 110, completion |-> 440],
      [model |-> o1_mini, prompt |-> 110, completion |-> 440],
      [model |-> claude_3_5_sonnet, prompt |-> 300, completion |-> 1500],
      [model |-> claude_3_5_haiku, prompt |-> 80, completion |-> 400],
      [model |-> QwQ_32B_Preview, prompt |-> 120, completion |-> 120],
      [model |-> DeepSeek_R1, prompt |-> 700, completion |-> 700],
      [model |-> DeepSeek_V3, prompt |-> 125, completion |-> 125],
      [model |-> Llama_3_3_70B_Instruct_Turbo, prompt |-> 88, completion |-> 88]>>

IsPriced(model) == \E e \in Range(StatedPrices) : e.model = model

StatedPrice(model) == CHOOSE e \in Range(StatedPrices) : e.model = model

\* what a record adds to the total, as the claims state it
StatedCost(item, model) ==
    IF has(item, "cost") THEN item.cost
    ELSE IF IsPriced(model)
         THEN item.token_usage.prompt_tokens * StatedPrice(model).prompt
              + item.token_usage.completion_tokens * StatedPrice(model).completion
         ELSE 0

\* the records of items that can be priced: with a cost, or with token_usage,
\* or under a model that has no price
Priceable(items, model) ==
    \A i \in 1..Len(items) :
        has(items[i], "cost") \/ has(items[i], "token_usage") \/ ~IsPriced(model)

StatedAverage(items, model) ==
    IF Len(items) = 0 THEN Frac(0, 1)
    ELSE Frac(SumSeq([i \in 1..Len(items) |-> StatedCost(items[i], model)]),
              Len(items))

\* C6: a record with a cost field adds exactly that cost, whatever the model
\* and whether token_usage is present, consistent or missing; only a record
\* without cost is priced from its tokens and the model's table entry.
ExplicitCostFirst ==
    cost_out # Pending =>
        /\ (\A i \in 1..Len(data.items) : has(data.items[i], "cost")) => cost_out.ok
        /\ Priceable(data.items, model_name) =>
              /\ cost_out.ok
              /\ cost_out.value = StatedAverage(data.items, model_name)

\* a priced model, and a record whose cost disagrees with its token_usage
ExplicitCostFirstWitness ==
    /\ cost_out # Pending
    /\ model_name = gpt_4o
    /\ Len(data.items) = 1
    /\ has(data.items[1], "cost") /\ has(data.items[1], "token_usage")
    /\ data.items[1].cost # 100 * 250 + 50 * 1000
    /\ cost_out = Ok(Frac(7, 1))

ExplicitCosts(items) ==
    [i \in 1..Len(items) |-> IF has(items[i], "cost") THEN items[i].cost ELSE 0]

\* C10: under a model without a price, a record without cost adds 0 and
\* raises nothing, also when it has no token_usage; the average cost is the
\* sum of the explicit costs over the number of deduplicated records.
UnpricedModelAddsZero ==
    /\ (cost_out # Pending /\ ~IsPriced(model_name)) =>
          /\ cost_out.ok
          /\ cost_out.value =
                IF Len(data.items) = 0 THEN Frac(0, 1)
                ELSE Frac(SumSeq(ExplicitCosts(data.items)), Len(data.items))
    /\ (score # Pending /\ score.ok /\ ~IsPriced(model_name)) =>
          LET dedup == deduplicate_data(data.items).value
          IN score.value.avg_cost = Frac(SumSeq(ExplicitCosts(dedup)), Len(dedup))

\* gpt-4 has no price: a record with neither cost nor token_usage, and one
\* with a cost
UnpricedModelAddsZeroWitness ==
    /\ cost_out # Pending
    /\ model_name = gpt_4
    /\ Len(data.items) = 2
    /\ ~has(data.items[1], "cost") /\ ~has(data.items[1], "token_usage")
    /\ has(data.items[2], "cost")
    /\ cost_out = Ok(Frac(7, 2))

\* C7: on a file whose deduplicated record set is empty, get_score_from_file
\* fails with an explicit "empty dataset" error.
EmptyDatasetIsSignalled ==
    (score # Pending /\ data.valid /\ data.items = <<>>) =>
        (~score.ok /\ score.raised = EmptyDatasetError)

----------------------------------------------------------------------------
(* Properties of the Aggregation Driver, checked under Spec *)

\* the row matches the qualifying file q
RowOf(row, q) ==
    /\ row.run_id = q.run_id
    /\ row.dataset = q.dataset
    /\ row.model = replace_char(parsed_name[q.name].model, "-", "_")
    /\ row.exp_name = parse_method(parsed_name[q.name].method)

Occurs(rows, r) == Cardinality({i \in 1..Len(rows) : rows[i] = r})

\* C8: while no extraction has raised, the rows are those of the qualifying
\* files met so far, one each and in their order, with the run_id and the
\* dataset of the directory; the table a completed pass returns holds
\* exactly these rows.
OneRowPerQualifyingFile ==
    /\ pc # "aborted" =>
          /\ Len(results_data) = Len(qualified)
          /\ \A i \in 1..Len(qualified) : RowOf(results_data[i], qualified[i])
    /\ pc = "done" =>
          /\ df.returned
          /\ Len(df.rows) = Len(results_data)
          /\ \A r \in Range(results_data) :
                Occurs(df.rows, r) = Occurs(results_data, r)

\* a completed pass that met a qualifying file and an entry that is none
OneRowPerQualifyingFileWitness ==
    /\ pc = "done"
    /\ entries = 2
    /\ Len(qualified) = 1
    /\ Len(df.rows) = 1
    /\ RowOf(df.rows[1], qualified[1])

\* C9: an extraction that raises does not abort the pass, and the report
\* holds a row for every qualifying file but the failing one.
ContinuesAfterFailure ==
    failed # <<>> =>
        /\ pc # "aborted"
        /\ Len(results_data) = Len(qualified) - Len(failed)
        /\ pc = "done" => Len(df.rows) = Len(results_data)

====
